---- MODULE Spec2Model ----
(***************************************************************************)
(* Model of src/app.py: the CUIF report application.                       *)
(*                                                                         *)
(* Text that the program parses, compares or sorts (account codes, entity  *)
(* codes and names, monetary values) is a sequence of one-character        *)
(* strings, so that parsing, formatting and ordering are computed and not  *)
(* assumed.  An optional value (Python None, pandas NaN) is a set with at  *)
(* most one element: {} is None/NaN and {v} is the value v.                *)
(***************************************************************************)
EXTENDS Integers, Sequences, FiniteSets, TLC

(***************************************************************************)
(* Bounds of the model.                                                    *)
(***************************************************************************)
\* rows in one page of the API (the code never looks at the length of a
\* non-empty page, only at whether it is empty)
MaxPageRows == 2
\* non-empty pages the API serves before it must answer with an empty page
\* or an error
MaxPages == 2
\* records of a DataFrame handed to procesar_dataframe in SpecProc
MaxRecs == 3

(***************************************************************************)
(* Program constants.                                                      *)
(***************************************************************************)
LIMIT == 50000

\* the divisors of UNIDADES_VALOR; "Billones" (10^12) is left out because it
\* exceeds the integer range of the model checker
UNIDADES_VALOR == {1, 1000, 1000000, 100000000, 1000000000}

cambio_signo_cuenta == { <<"3", "9", "2", "0", "0", "0">> }

None == {}
Some(v) == {v}
Get(o) == CHOOSE v \in o : TRUE

(***************************************************************************)
(* Text: code-point order, digits, conversions.                            *)
(***************************************************************************)
\* the characters of the model in code-point order (Python compares str by
\* code point)
Chars == <<" ", "-", "0", "1", "2", "3", "4", "5", "6", "7", "8", "9",
           "A", "B", "X", "a", "x">>

Ord(c) == CHOOSE i \in 1..Len(Chars) : Chars[i] = c

Digits == {"0", "1", "2", "3", "4", "5", "6", "7", "8", "9"}

DigitVal(c) == Ord(c) - Ord("0")

\* s < t for Python str
RECURSIVE TextLess(_, _)
TextLess(s, t) ==
    IF t = <<>> THEN FALSE
    ELSE IF s = <<>> THEN TRUE
    ELSE IF Head(s) = Head(t) THEN TextLess(Tail(s), Tail(t))
    ELSE Ord(Head(s)) < Ord(Head(t))

\* the value of a non-empty run of decimal digits
RECURSIVE DigitsVal(_)
DigitsVal(s) ==
    IF s = <<>> THEN 0
    ELSE DigitsVal(SubSeq(s, 1, Len(s) - 1)) * 10 + DigitVal(s[Len(s)])

AllDigits(s) == s # <<>> /\ \A i \in 1..Len(s) : s[i] \in Digits

\* str(n) for a non-negative int: Series.astype(str) on an integer column
RECURSIVE IntToText(_)
IntToText(n) ==
    IF n < 10 THEN <<Chars[Ord("0") + n]>>
    ELSE IntToText(n \div 10) \o <<Chars[Ord("0") + (n % 10)]>>

\* str.replace(old, '', regex=False) for a one-character old: every
\* occurrence is removed, wherever it stands
RECURSIVE StrReplace(_, _)
StrReplace(s, old) ==
    IF s = <<>> THEN <<>>
    ELSE IF Head(s) = old THEN StrReplace(Tail(s), old)
    ELSE <<Head(s)>> \o StrReplace(Tail(s), old)

\* pd.to_numeric(text, errors="coerce") on the texts of the model: an
\* optional sign and decimal digits give the number, anything else NaN
to_numeric(s) ==
    IF AllDigits(s) THEN Some(DigitsVal(s))
    ELSE IF s # <<>> /\ Head(s) = "-" /\ AllDigits(Tail(s))
         THEN Some(0 - DigitsVal(Tail(s)))
    ELSE None

\* (n / d).round(0): numpy rounds half to even
RoundDiv(n, d) ==
    LET q == n \div d
        r == n % d
    IN  IF 2 * r < d THEN q
        ELSE IF 2 * r > d THEN q + 1
        ELSE IF q % 2 = 0 THEN q ELSE q + 1

(***************************************************************************)
(* procesar_dataframe: value transformer.                                  *)
(***************************************************************************)
\* a record of the API: [cuenta, nombre_cuenta, codigo_entidad,
\* nombre_entidad, valor], all text.  A DataFrame of records is a sequence.

\* mutant of valor_corregido: the mask is dropped, every account is stripped
valor_corregido_todas(r) == StrReplace(r.valor, "-")

\* lines 225-226: the rows whose cuenta is in cambio_signo_cuenta get every
\* '-' removed from the text of valor; the others keep their text
valor_corregido(r) ==
    IF r.cuenta \in cambio_signo_cuenta THEN StrReplace(r.valor, "-")
    ELSE r.valor

\* lines 228-230: the column valor_Rango_de_Valores of one row
valor_Rango_de_Valores(r, factor_rango) ==
    LET n == to_numeric(valor_corregido(r))
    IN  IF n = None THEN None ELSE Some(RoundDiv(Get(n), factor_rango))

\* line 232: the column Label of one row
Label(r) == r.codigo_entidad \o <<" ", "-", " ">> \o r.nombre_entidad

(***************************************************************************)
(* procesar_dataframe: pivot.                                              *)
(***************************************************************************)
ColCuenta == <<"c", "u", "e", "n", "t", "a">>
ColNombreCuenta == <<"n", "o", "m", "b", "r", "e", "_", "c", "u", "e", "n", "t", "a">>
fixed == <<ColCuenta, ColNombreCuenta>>

Range(s) == {s[i] : i \in 1..Len(s)}

\* the index of the pivot: the pairs (cuenta, nombre_cuenta) of the rows
IndexKey(r) == <<r.cuenta, r.nombre_cuenta>>

KeyLess(a, b) ==
    TextLess(a[1], b[1]) \/ (a[1] = b[1] /\ TextLess(a[2], b[2]))

\* the distinct labels in text order: the columns of the pivot
RECURSIVE SortedLabels(_)
SortedLabels(S) ==
    IF S = {} THEN <<>>
    ELSE LET m == CHOOSE x \in S : \A y \in S \ {x} : TextLess(x, y)
         IN  <<m>> \o SortedLabels(S \ {m})

\* the distinct index pairs in order: the rows of the pivot
RECURSIVE SortedKeys(_)
SortedKeys(S) ==
    IF S = {} THEN <<>>
    ELSE LET m == CHOOSE x \in S : \A y \in S \ {x} : KeyLess(x, y)
         IN  <<m>> \o SortedKeys(S \ {m})

\* pd.pivot raises ValueError ("Index contains duplicate entries, cannot
\* reshape") when two rows share index and column
DuplicateEntries(df) ==
    \E i, j \in 1..Len(df) :
        /\ i < j
        /\ IndexKey(df[i]) = IndexKey(df[j])
        /\ Label(df[i]) = Label(df[j])

\* lines 235-243: the pivot with its index reset; a DataFrame is
\* [columns, rows], each row a function on the columns
pivot(df, factor_rango) ==
    LET labels == SortedLabels({Label(df[i]) : i \in 1..Len(df)})
        keys   == SortedKeys({IndexKey(df[i]) : i \in 1..Len(df)})
        cols   == fixed \o labels
        cell(k, c) ==
            IF \E i \in 1..Len(df) : IndexKey(df[i]) = k /\ Label(df[i]) = c
            THEN LET i == CHOOSE i \in 1..Len(df) :
                              IndexKey(df[i]) = k /\ Label(df[i]) = c
                 IN  valor_Rango_de_Valores(df[i], factor_rango)
            ELSE None
    IN  [columns |-> cols,
         rows    |-> [n \in 1..Len(keys) |->
                        [c \in Range(cols) |->
                            IF c = ColCuenta THEN keys[n][1]
                            ELSE IF c = ColNombreCuenta THEN keys[n][2]
                            ELSE cell(keys[n], c)]]]

(***************************************************************************)
(* procesar_dataframe: column ordering.                                    *)
(***************************************************************************)
\* the number of leading characters of s that are in S
RECURSIVE LeadingIn(_, _)
LeadingIn(s, S) ==
    IF s = <<>> \/ Head(s) \notin S THEN 0 ELSE 1 + LeadingIn(Tail(s), S)

\* mutant of sort_by_prefix: no numeric key, the text order of the labels stays
sort_by_prefix_texto(col) == 0

\* lines 246-248: re.match(r'^(\d+)\s*-', col): one or more digits, any
\* white space, a hyphen; the key is the integer of the digits, or -1
sort_by_prefix(col) ==
    LET nd   == LeadingIn(col, Digits)
        rest == SubSeq(col, nd + 1, Len(col))
        ns   == LeadingIn(rest, {" "})
        tail == SubSeq(rest, ns + 1, Len(rest))
    IN  IF nd >= 1 /\ tail # <<>> /\ Head(tail) = "-"
        THEN DigitsVal(SubSeq(col, 1, nd))
        ELSE 0 - 1

\* sorted(cols, key=sort_by_prefix): stable, ascending by key
RECURSIVE InsertByKey(_, _)
InsertByKey(x, s) ==
    IF s = <<>> THEN <<x>>
    ELSE IF sort_by_prefix(s[Len(s)]) <= sort_by_prefix(x) THEN Append(s, x)
    ELSE Append(InsertByKey(x, SubSeq(s, 1, Len(s) - 1)), s[Len(s)])

RECURSIVE sorted(_)
sorted(cols) ==
    IF cols = <<>> THEN <<>>
    ELSE InsertByKey(cols[Len(cols)], sorted(SubSeq(cols, 1, Len(cols) - 1)))

\* lines 250-252: the fixed columns, then the others sorted by prefix
ordenar_columnas(pivot_df) ==
    LET other_cols == SelectSeq(pivot_df.columns, LAMBDA c : c \notin Range(fixed))
        cols       == fixed \o sorted(other_cols)
    IN  [columns |-> cols,
         rows    |-> [n \in 1..Len(pivot_df.rows) |->
                        [c \in Range(cols) |-> pivot_df.rows[n][c]]]]

(***************************************************************************)
(* procesar_dataframe: merge with the template.                            *)
(***************************************************************************)
\* a row of the sheet "Cuentas": [Cuenta, Descripcion_Cuenta]; a cell of the
\* column Cuenta is a number cell [int |-> n] or a text cell [text |-> t]

\* line 257: plantilla["Cuenta"].astype(str)
AsStr(cell) ==
    IF "int" \in DOMAIN cell THEN IntToText(cell.int) ELSE cell.text

\* fillna(0) on one cell
fillna(cell) == IF cell = None THEN 0 ELSE Get(cell)

RECURSIVE Concat(_)
Concat(ss) == IF ss = <<>> THEN <<>> ELSE Head(ss) \o Concat(Tail(ss))

\* lines 255-264: plantilla.join(pivot_df, how="left").fillna(0), index
\* reset.  The left rows keep their order; a left row with no match gets
\* NaN in every column of the right frame, a left row with several matches
\* is repeated once per match, in the order of the right frame.
merge_plantilla(pivot_df, plantilla) ==
    LET labels == SelectSeq(pivot_df.columns, LAMBDA c : c \notin Range(fixed))
        cols   == fixed \o labels
        joined(e) ==
            LET matches == SelectSeq(pivot_df.rows,
                                     LAMBDA row : row[ColCuenta] = AsStr(e.Cuenta))
                out(cells) ==
                    [c \in Range(cols) |->
                        IF c = ColCuenta THEN AsStr(e.Cuenta)
                        ELSE IF c = ColNombreCuenta THEN e.Descripcion_Cuenta
                        ELSE fillna(cells[c])]
            IN  IF matches = <<>>
                THEN << out([c \in Range(labels) |-> None]) >>
                ELSE [m \in 1..Len(matches) |-> out(matches[m])]
    IN  [columns |-> cols,
         rows    |-> Concat([n \in 1..Len(plantilla) |-> joined(plantilla[n])])]

NoError == [tipo |-> "", status |-> 0, text |-> ""]
KeyError == [tipo |-> "KeyError", status |-> 0, text |-> "cuenta"]
ValueError == [tipo |-> "ValueError", status |-> 0,
               text |-> "Index contains duplicate entries, cannot reshape"]
HTTPError(r) == [tipo |-> "Exception", status |-> r.status, text |-> r.text]

\* lines 223-265: the exception raised, or the table returned.
\* pd.DataFrame([]) has no columns, so df_final['cuenta'] raises KeyError
\* on a frame without rows (line 225).
procesar_dataframe(df, plantilla, factor_rango) ==
    IF df = <<>> THEN [error |-> KeyError, value |-> None]
    ELSE IF DuplicateEntries(df) THEN [error |-> ValueError, value |-> None]
    ELSE [error |-> NoError,
          value |-> Some(merge_plantilla(
                            ordenar_columnas(pivot(df, factor_rango)),
                            plantilla))]

\* lines 271-303: the workbook: the header cells that depend on the inputs
\* and the table written from row 9
start_row == 9
generar_excel(pivot_df, fecha_desde, factor_rango) ==
    [B3 |-> fecha_desde, B5 |-> factor_rango,
     first_row |-> start_row, header |-> pivot_df.columns, body |-> pivot_df.rows]

(***************************************************************************)
(* API functions: what each does with the response it gets.                *)
(***************************************************************************)
\* a response of the transport: [status, text, data], data the parsed JSON
\* array; a request: [kind, desde, hasta, limit, offset]

\* mutant of max_fecha: a non-success response raises, as in conteo
max_fecha_raise(r) ==
    IF r.status # 200 THEN [error |-> HTTPError(r), value |-> None]
    ELSE IF r.data # <<>>
         THEN [error |-> NoError, value |-> Some(r.data[1].max_fecha_corte)]
    ELSE [error |-> NoError, value |-> None]

\* lines 147-153
max_fecha(r) ==
    IF r.status # 200 THEN [error |-> NoError, value |-> None]
    ELSE IF r.data # <<>>
         THEN [error |-> NoError, value |-> Some(r.data[1].max_fecha_corte)]
    ELSE [error |-> NoError, value |-> None]

\* lines 176-185: int(data[0].get("count", 0)), 0 on IndexError/ValueError
conteo(r) ==
    IF r.status # 200 THEN [error |-> HTTPError(r), value |-> None]
    ELSE IF r.data = <<>> THEN [error |-> NoError, value |-> Some(0)]
    ELSE IF "count" \notin DOMAIN r.data[1] THEN [error |-> NoError, value |-> Some(0)]
    ELSE LET n == to_numeric(r.data[1].count)
         IN  [error |-> NoError, value |-> Some(fillna(n))]

\* lines 200-204: the parameters of a page request
params(desde, hasta, offset) ==
    [kind |-> "page", desde |-> desde, hasta |-> hasta,
     limit |-> LIMIT, offset |-> offset]

\* lines 171-174
params_conteo(desde, hasta) ==
    [kind |-> "count", desde |-> desde, hasta |-> hasta, limit |-> 0, offset |-> 0]

\* lines 143-146
query_max_fecha ==
    [kind |-> "max", desde |-> 0, hasta |-> 0, limit |-> 0, offset |-> 0]

\* mutant of descargar_pagina: a page shorter than a full one ends the loop
descargar_pagina_corta(r, all_rows, offset) ==
    IF r.status # 200
    THEN [error |-> HTTPError(r), break |-> TRUE, all_rows |-> all_rows, offset |-> offset]
    ELSE IF Len(r.data) < MaxPageRows
    THEN [error |-> NoError, break |-> TRUE,
          all_rows |-> all_rows \o r.data, offset |-> offset]
    ELSE [error |-> NoError, break |-> FALSE,
          all_rows |-> all_rows \o r.data, offset |-> offset + LIMIT]

\* mutant of descargar_pagina: a failed page is taken for the end of the data
descargar_pagina_parcial(r, all_rows, offset) ==
    IF r.status # 200 \/ r.data = <<>>
    THEN [error |-> NoError, break |-> TRUE, all_rows |-> all_rows, offset |-> offset]
    ELSE [error |-> NoError, break |-> FALSE,
          all_rows |-> all_rows \o r.data, offset |-> offset + LIMIT]

\* lines 207-215: one turn of the loop of descargar_datos on the response
\* r: the exception raised, whether the loop ends, the rows and the offset
descargar_pagina(r, all_rows, offset) ==
    IF r.status # 200
    THEN [error |-> HTTPError(r), break |-> TRUE, all_rows |-> all_rows, offset |-> offset]
    ELSE IF r.data = <<>>
    THEN [error |-> NoError, break |-> TRUE, all_rows |-> all_rows, offset |-> offset]
    ELSE [error |-> NoError, break |-> FALSE,
          all_rows |-> all_rows \o r.data, offset |-> offset + LIMIT]

\* mutant of validar: the date range is not checked
validar_sin_fechas(fecha_desde, fecha_hasta, plantilla_file) ==
    IF plantilla_file = None
    THEN "Debe subir el archivo de plantilla."
    ELSE ""

\* lines 415-418: the message of the validation that fails, "" when none
validar(fecha_desde, fecha_hasta, plantilla_file) ==
    IF fecha_desde > fecha_hasta
    THEN "La fecha inicial no puede ser mayor a la final."
    ELSE IF plantilla_file = None
    THEN "Debe subir el archivo de plantilla."
    ELSE ""

\* `if fecha:` (line 315): None and the empty string are false
Truthy(fecha) == fecha # None /\ Get(fecha) # ""

(***************************************************************************)
(* Inputs: what the user can enter and what the API can answer.            *)
(***************************************************************************)
Fechas == {1, 2}

Cuenta392000 == <<"3", "9", "2", "0", "0", "0">>

Rec(c, n, e, v) ==
    [cuenta |-> c, nombre_cuenta |-> n, codigo_entidad |-> e,
     nombre_entidad |-> <<"X">>, valor |-> v]

\* a sign-flip account with a negative value
Rec1 == Rec(Cuenta392000, <<"A">>, <<"2">>, <<"-", "2", "5", "0", "0">>)
\* the same account at another entity
Rec2 == Rec(Cuenta392000, <<"A">>, <<"1", "0">>, <<"1", "5", "0", "0">>)
\* another account with a negative value
Rec3 == Rec(<<"1", "1">>, <<"A">>, <<"2">>, <<"-", "3", "5", "0", "0">>)
\* the same account and entity under another account name
Rec4 == Rec(<<"1", "1">>, <<"B">>, <<"2">>, <<"7", "0">>)
\* a value that is not a number
Rec5 == Rec(<<"1", "1">>, <<"A">>, <<"1", "0">>, <<"x">>)
\* an entity code that is not a number
Rec6 == Rec(<<"1", "1">>, <<"A">>, <<"a">>, <<"1", "5", "0", "0">>)
\* an account that no template lists, an entity code with a leading zero
Rec7 == Rec(<<"5">>, <<"A">>, <<"0", "2">>, <<"7", "0">>)

\* the sign-flip account and entity of Rec1 at a second cutoff date
Rec8 == Rec(Cuenta392000, <<"A">>, <<"2">>, <<"9", "0", "0">>)

RecordPool == {Rec1, Rec2, Rec3, Rec4, Rec5, Rec6, Rec7, Rec8}

\* the records the pages of the full pipeline are made of
PagePool == {Rec1, Rec3}

Entry(c, d) == [Cuenta |-> c, Descripcion_Cuenta |-> d]

Plantillas ==
    { << Entry([int |-> 392000], "Ingresos"),
         Entry([text |-> <<"1", "1">>], "Caja"),
         Entry([int |-> 7], "Otros") >>,
      << Entry([int |-> 11], "Disponible"),
         Entry([text |-> Cuenta392000], "Ingresos") >> }

RECURSIVE SeqsUpTo(_, _)
SeqsUpTo(S, n) ==
    IF n = 0 THEN {<<>>}
    ELSE LET shorter == SeqsUpTo(S, n - 1)
         IN  shorter \cup {Append(s, x) : s \in shorter, x \in S}

ErrorResponses ==
    { [status |-> 400, text |-> "Bad Request", data |-> <<>>],
      [status |-> 500, text |-> "Server Error", data |-> <<>>] }

Ok(data) == [status |-> 200, text |-> "", data |-> data]

MaxResponses ==
    ErrorResponses \cup
    { Ok(<<>>), Ok(<<[max_fecha_corte |-> "2025-12-31"]>>),
      Ok(<<[max_fecha_corte |-> ""]>>) }

CountResponses ==
    ErrorResponses \cup
    { Ok(<<>>), Ok(<<[count |-> <<"2">>]>>), Ok(<<[count |-> <<"x">>]>>),
      Ok(<<[otro |-> <<"2">>]>>) }

\* the API serves at most MaxPages non-empty pages
PageResponses(offset) ==
    ErrorResponses \cup
    { Ok(d) : d \in IF offset < MaxPages * LIMIT
                    THEN SeqsUpTo(PagePool, MaxPageRows) ELSE {<<>>} }

(***************************************************************************)
(* State.                                                                  *)
(***************************************************************************)
VARIABLES
    fecha_desde,    \* widget "Fecha Desde"
    fecha_hasta,    \* widget "Fecha Hasta"
    plantilla_file, \* uploaded template, None until one is uploaded
    factor_rango,   \* divisor of the selected unit
    pc,             \* position of the current script run
    sent,           \* requests issued by the current run, in order
    received,       \* the response to each of them
    fecha,          \* result of max_fecha()
    cantidad,       \* result of conteo()
    offset,         \* descargar_datos: offset of the next page
    all_rows,       \* descargar_datos: rows accumulated so far
    df,             \* the frame descargar_datos returned
    pivot_full,     \* the table procesar_dataframe returned
    xlsx,           \* the workbook offered for download
    error,          \* the exception that ended the run, NoError when none
    ui              \* the last st.error / st.success / st.info message

widgets == <<fecha_desde, fecha_hasta, plantilla_file, factor_rango>>
run == <<pc, sent, received, fecha, cantidad, offset, all_rows, df,
         pivot_full, xlsx, error, ui>>
vars == <<widgets, run>>

\* the script is not running: it waits for the next interaction
Idle == pc \in {"listo", "hecho", "abortado"}

\* every interaction reruns the script from the top: nothing of the
\* previous run is kept but the widgets
NewRun ==
    /\ sent' = <<>>
    /\ received' = <<>>
    /\ fecha' = None
    /\ cantidad' = None
    /\ offset' = 0
    /\ all_rows' = <<>>
    /\ df' = None
    /\ pivot_full' = None
    /\ xlsx' = None
    /\ error' = NoError

Init ==
    /\ fecha_desde = 1
    /\ fecha_hasta = 1
    /\ plantilla_file = None
    /\ factor_rango = 1
    /\ pc = "listo"
    /\ sent = <<>>
    /\ received = <<>>
    /\ fecha = None
    /\ cantidad = None
    /\ offset = 0
    /\ all_rows = <<>>
    /\ df = None
    /\ pivot_full = None
    /\ xlsx = None
    /\ error = NoError
    /\ ui = ""

(***************************************************************************)
(* The user changes a widget (lines 324-325, 402-411).                     *)
(***************************************************************************)
SeleccionarFechas ==
    /\ Idle
    /\ \E d \in Fechas, h \in Fechas :
        /\ fecha_desde' = d
        /\ fecha_hasta' = h
    /\ NewRun
    /\ pc' = "listo"
    /\ ui' = ""
    /\ UNCHANGED <<plantilla_file, factor_rango>>

SeleccionarRango ==
    /\ Idle
    /\ \E f \in UNIDADES_VALOR : factor_rango' = f
    /\ NewRun
    /\ pc' = "listo"
    /\ ui' = ""
    /\ UNCHANGED <<fecha_desde, fecha_hasta, plantilla_file>>

SubirPlantilla ==
    /\ Idle
    /\ \E p \in Plantillas : plantilla_file' = Some(p)
    /\ NewRun
    /\ pc' = "listo"
    /\ ui' = ""
    /\ UNCHANGED <<fecha_desde, fecha_hasta, factor_rango>>

(***************************************************************************)
(* Button "Consultar Fecha Maxima Disponible" (lines 313-318).             *)
(***************************************************************************)
ConsultarFechaMaxima ==
    /\ Idle
    /\ \E r \in MaxResponses :
        LET res == max_fecha(r)
        IN  /\ sent' = <<query_max_fecha>>
            /\ received' = <<r>>
            /\ error' = res.error
            /\ fecha' = res.value
            /\ IF res.error # NoError
               THEN pc' = "abortado" /\ ui' = ""
               ELSE /\ pc' = "listo"
                    /\ ui' = IF Truthy(res.value)
                             THEN "Fecha maxima encontrada"
                             ELSE "No se pudo obtener la fecha maxima."
    /\ cantidad' = None
    /\ offset' = 0
    /\ all_rows' = <<>>
    /\ df' = None
    /\ pivot_full' = None
    /\ xlsx' = None
    /\ UNCHANGED widgets

(***************************************************************************)
(* Button "Validar y Descargar" (lines 413-448).                           *)
(***************************************************************************)
\* lines 415-423: validation
ValidarYDescargar ==
    /\ Idle
    /\ NewRun
    /\ LET msg == validar(fecha_desde, fecha_hasta, plantilla_file)
       IN  IF msg # ""
           THEN pc' = "listo" /\ ui' = msg
           ELSE pc' = "conteo" /\ ui' = "Consultando cantidad de registros"
    /\ UNCHANGED widgets

\* line 424-427: conteo() and the response to its request
Conteo ==
    /\ pc = "conteo"
    /\ \E r \in CountResponses :
        LET res == conteo(r)
        IN  /\ sent' = Append(sent, params_conteo(fecha_desde, fecha_hasta))
            /\ received' = Append(received, r)
            /\ error' = res.error
            /\ cantidad' = res.value
            /\ IF res.error # NoError
               THEN pc' = "abortado" /\ ui' = ui
               ELSE pc' = "descarga" /\ ui' = "Descargando datos"
    /\ offset' = 0
    /\ all_rows' = <<>>
    /\ UNCHANGED <<widgets, fecha, df, pivot_full, xlsx>>

\* line 428: one turn of the loop of descargar_datos
DescargarPagina ==
    /\ pc = "descarga"
    /\ \E r \in PageResponses(offset) :
        LET res == descargar_pagina(r, all_rows, offset)
        IN  /\ sent' = Append(sent, params(fecha_desde, fecha_hasta, offset))
            /\ received' = Append(received, r)
            /\ error' = res.error
            /\ all_rows' = res.all_rows
            /\ offset' = res.offset
            /\ IF res.error # NoError
               THEN pc' = "abortado" /\ df' = None /\ ui' = ui
               ELSE IF res.break
               THEN pc' = "procesando" /\ df' = Some(res.all_rows) /\ ui' = "Procesando"
               ELSE pc' = "descarga" /\ df' = None /\ ui' = ui
    /\ UNCHANGED <<widgets, fecha, cantidad, pivot_full, xlsx>>

\* lines 431-448: procesar_dataframe, generar_excel and the download button
Procesar ==
    /\ pc = "procesando"
    /\ LET res == procesar_dataframe(Get(df), Get(plantilla_file), factor_rango)
       IN  /\ error' = res.error
           /\ pivot_full' = res.value
           /\ IF res.error # NoError
              THEN pc' = "abortado" /\ xlsx' = None /\ ui' = ui
              ELSE /\ pc' = "hecho"
                   /\ xlsx' = Some(generar_excel(Get(res.value), fecha_desde, factor_rango))
                   /\ ui' = "Archivo generado correctamente."
    /\ UNCHANGED <<widgets, sent, received, fecha, cantidad, offset, all_rows, df>>

Next ==
    \/ SeleccionarFechas
    \/ SeleccionarRango
    \/ SubirPlantilla
    \/ ConsultarFechaMaxima
    \/ ValidarYDescargar
    \/ Conteo
    \/ DescargarPagina
    \/ Procesar

Spec == Init /\ [][Next]_vars

(***************************************************************************)
(* procesar_dataframe on its own: every frame of up to MaxRecs records of  *)
(* RecordPool, delivered by the API in one page, every template and unit.  *)
(***************************************************************************)
InitProc ==
    /\ fecha_desde = 1
    /\ fecha_hasta = 1
    /\ plantilla_file \in {Some(p) : p \in Plantillas}
    /\ factor_rango \in UNIDADES_VALOR
    /\ pc = "procesando"
    /\ \E rows \in SeqsUpTo(RecordPool, MaxRecs) :
        /\ all_rows = rows
        /\ df = Some(rows)
        /\ sent = <<params_conteo(1, 1)>>
                  \o [i \in 1..(IF rows = <<>> THEN 1 ELSE 2) |->
                        params(1, 1, (i - 1) * LIMIT)]
        /\ received = <<Ok(<<[count |-> IntToText(Len(rows))]>>)>>
                      \o (IF rows = <<>> THEN <<>> ELSE <<Ok(rows)>>)
                      \o <<Ok(<<>>)>>
        /\ cantidad = Some(Len(rows))
        /\ offset = IF rows = <<>> THEN 0 ELSE LIMIT
    /\ fecha = None
    /\ pivot_full = None
    /\ xlsx = None
    /\ error = NoError
    /\ ui = "Procesando"

NextProc == Procesar

SpecProc == InitProc /\ [][NextProc]_vars

(***************************************************************************)
(* Properties of the full pipeline (Spec).                                 *)
(***************************************************************************)
\* the positions in sent of the page requests of descargar_datos
PageIdx == {i \in 1..Len(sent) : sent[i].kind = "page"}

\* the data of the non-empty pages received so far, concatenated in the
\* order of retrieval
PagesReceived ==
    Concat([i \in 1..Len(received) |->
              IF i \in PageIdx /\ received[i].status = 200
              THEN received[i].data ELSE <<>>])

\* C1: descargar_datos issues its page requests one after another with
\* offsets 0, LIMIT, 2*LIMIT, ...; a page with zero rows is always the last
\* request and makes the function return; the function returns only on such
\* a page, never on a non-empty one; after k non-empty pages and one empty
\* page it has issued exactly k+1 requests and returns the k pages
\* concatenated in retrieval order.
C1_Paginacion ==
    /\ \A i \in PageIdx :
        /\ sent[i].limit = LIMIT
        /\ sent[i].offset = LIMIT * Cardinality({j \in PageIdx : j < i})
    /\ \A i \in PageIdx :
        received[i] = Ok(<<>>) => (i = Len(sent) /\ df # None)
    /\ df # None =>
        /\ Len(sent) \in PageIdx
        /\ received[Len(sent)] = Ok(<<>>)
        /\ Cardinality(PageIdx) =
             Cardinality({i \in PageIdx : received[i].data # <<>>}) + 1
        /\ Get(df) = PagesReceived

\* C1 witness: three page requests, the first page shorter than the second,
\* and the frame returned holds the rows of both
C1_Witness ==
    /\ df # None
    /\ Cardinality(PageIdx) = 3
    /\ Len(received[2].data) = 1
    /\ Len(received[3].data) = 2
    /\ Len(Get(df)) = 3

\* C2: a non-success response to the count request or to a page request is
\* the last request of the run; the run is aborted with an exception that
\* carries the status and the body; no frame is returned, no table is
\* computed and no workbook is produced.
C2_FalloAborta ==
    \A i \in 1..Len(received) :
        (sent[i].kind \in {"count", "page"} /\ received[i].status # 200) =>
            /\ i = Len(sent)
            /\ pc = "abortado"
            /\ error = [tipo |-> "Exception", status |-> received[i].status,
                        text |-> received[i].text]
            /\ df = None
            /\ pivot_full = None
            /\ xlsx = None

\* C2 witness: a page request fails after a page with rows was retrieved
C2_Witness ==
    /\ pc = "abortado"
    /\ Len(sent) = 3
    /\ received[2].data # <<>>
    /\ received[3].status = 500
    /\ all_rows # <<>>

\* C3: while the date range has from > to or no template is uploaded, the
\* run has issued neither a count request nor a page request, is at none of
\* the pipeline's steps, and has produced no table and no workbook.
C3_ValidacionSinRed ==
    (fecha_desde > fecha_hasta \/ plantilla_file = None) =>
        /\ \A i \in 1..Len(sent) : sent[i].kind \notin {"count", "page"}
        /\ pc \in {"listo", "abortado"}
        /\ error = NoError
        /\ df = None
        /\ pivot_full = None
        /\ xlsx = None

\* C3 witness: the button was pressed with from > to and a template present,
\* and the validation message is shown
C3_Witness ==
    /\ fecha_desde > fecha_hasta
    /\ plantilla_file # None
    /\ ui = "La fecha inicial no puede ser mayor a la final."
    /\ sent = <<>>

\* what a run of the max-date button leaves behind, by the response it got
C7_Estado ==
    \A i \in 1..Len(sent) :
        sent[i].kind = "max" =>
            /\ error = NoError
            /\ pc = "listo"
            /\ (received[i].status # 200 \/ received[i].data = <<>>) =>
                   /\ fecha = None
                   /\ ui = "No se pudo obtener la fecha maxima."
            /\ (received[i].status = 200 /\ received[i].data # <<>>) =>
                   fecha = Some(received[i].data[1].max_fecha_corte)
            /\ df = None /\ pivot_full = None /\ xlsx = None

\* C7: a run of the max-date button ends without an exception; on a
\* non-success response or a response without rows max_fecha returns None
\* and the page shows the "could not obtain" message; on a success response
\* with a row it returns that row's max_fecha_corte; and the step that makes
\* the call leaves the inputs of the report pipeline as they were.
C7_FechaMaxima ==
    /\ []C7_Estado
    /\ [][(sent' # <<>> /\ sent'[1].kind = "max") => UNCHANGED widgets]_vars

\* C7 witness: the max-date request got a non-success response and the page
\* shows the "could not obtain" message
C7_Witness ==
    /\ sent = <<query_max_fecha>>
    /\ received[1].status = 500
    /\ fecha = None
    /\ ui = "No se pudo obtener la fecha maxima."
    /\ plantilla_file # None

\* C10: when the first page is empty, the run that fetched zero records
\* ends without error with a workbook, and the table has one row per
\* template entry, with the entry's code and description and no entity
\* column.
C10_SinRegistros ==
    (df = Some(<<>>) /\ pc # "procesando") =>
        /\ pc = "hecho"
        /\ error = NoError
        /\ xlsx # None
        /\ pivot_full # None
        /\ Get(pivot_full).columns = fixed
        /\ Len(Get(pivot_full).rows) = Len(Get(plantilla_file))
        /\ \A n \in 1..Len(Get(plantilla_file)) :
            /\ Get(pivot_full).rows[n][ColCuenta] = AsStr(Get(plantilla_file)[n].Cuenta)
            /\ Get(pivot_full).rows[n][ColNombreCuenta] =
                   Get(plantilla_file)[n].Descripcion_Cuenta

(***************************************************************************)
(* Properties of procesar_dataframe (SpecProc).                            *)
(***************************************************************************)
\* the frame handed to procesar_dataframe, the template and the table
\* returned
Frame == Get(df)
Plantilla == Get(plantilla_file)
Tabla == Get(pivot_full)

\* the entity columns of the table returned, in order
EntityCols == SubSeq(Tabla.columns, 3, Len(Tabla.columns))

\* the position of column c in the table returned
Pos(c) == CHOOSE i \in 1..Len(Tabla.columns) : Tabla.columns[i] = c

\* the value of the source text of a record, NaN when it is no number
SourceValue(r) ==
    IF AllDigits(r.valor) THEN Some(DigitsVal(r.valor))
    ELSE IF r.valor # <<>> /\ Head(r.valor) = "-" /\ AllDigits(Tail(r.valor))
         THEN Some(0 - DigitsVal(Tail(r.valor)))
    ELSE None

\* C4: whenever procesar_dataframe returns a table, the table has exactly
\* one row per template entry, in template order, each with the entry's
\* account code (so no row for an account the template does not list).
C4_UnaFilaPorCuenta ==
    pc = "hecho" =>
        /\ Len(Tabla.rows) = Len(Plantilla)
        /\ \A n \in 1..Len(Plantilla) :
            Tabla.rows[n][ColCuenta] = AsStr(Plantilla[n].Cuenta)

\* C5: whenever procesar_dataframe returns a table, its entity columns are
\* exactly the labels of the records of the frame, and in every row every
\* entity cell is the scaled value of a record of that account and entity
\* when there is one with a parseable value, and zero when there is none.
C5_Celdas ==
    pc = "hecho" =>
        /\ Range(EntityCols) = {Label(Frame[i]) : i \in 1..Len(Frame)}
        /\ \A n \in 1..Len(Tabla.rows) : \A c \in Range(EntityCols) :
            LET recs == {i \in 1..Len(Frame) :
                            /\ Frame[i].cuenta = Tabla.rows[n][ColCuenta]
                            /\ Label(Frame[i]) = c
                            /\ SourceValue(Frame[i]) # None}
                scaled(i) ==
                    LET v == Get(SourceValue(Frame[i]))
                        m == IF Frame[i].cuenta \in cambio_signo_cuenta /\ v < 0
                             THEN 0 - v ELSE v
                    IN  RoundDiv(m, factor_rango)
            IN  IF recs = {} THEN Tabla.rows[n][c] = 0
                ELSE \E i \in recs : Tabla.rows[n][c] = scaled(i)

\* C6: when the frame holds two records with the same account and the same
\* entity label, procesar_dataframe raises and no workbook is produced.
C6_DuplicadosFallan ==
    (/\ pc # "procesando"
     /\ \E i, j \in 1..Len(Frame) :
            /\ i < j
            /\ Frame[i].cuenta = Frame[j].cuenta
            /\ Label(Frame[i]) = Label(Frame[j])) =>
        /\ pc = "abortado"
        /\ error # NoError
        /\ pivot_full = None
        /\ xlsx = None

\* C8: in the table returned the first two columns are cuenta and
\* nombre_cuenta; the entity columns are the labels of the frame, each once;
\* a label whose entity code is a number stands before every label whose
\* entity code is a larger number, and a label whose entity code is not a
\* number stands before every label whose entity code is one.
C8_OrdenColumnas ==
    pc = "hecho" =>
        /\ Tabla.columns[1] = ColCuenta
        /\ Tabla.columns[2] = ColNombreCuenta
        /\ Range(EntityCols) = {Label(Frame[i]) : i \in 1..Len(Frame)}
        /\ Len(EntityCols) = Cardinality(Range(EntityCols))
        /\ \A i, j \in 1..Len(Frame) :
            LET ci == Frame[i].codigo_entidad
                cj == Frame[j].codigo_entidad
            IN  /\ (AllDigits(ci) /\ AllDigits(cj) /\ DigitsVal(ci) < DigitsVal(cj))
                       => Pos(Label(Frame[i])) < Pos(Label(Frame[j]))
                /\ (~AllDigits(ci) /\ AllDigits(cj))
                       => Pos(Label(Frame[i])) < Pos(Label(Frame[j]))

\* C8 witness: the labels "a - X", "2 - X" and "10 - X" in that order
C8_Witness ==
    /\ pc = "hecho"
    /\ EntityCols = << <<"a", " ", "-", " ", "X">>,
                       <<"2", " ", "-", " ", "X">>,
                       <<"1", "0", " ", "-", " ", "X">> >>

\* the account codes of the template, as text
CuentasPlantilla == {AsStr(Plantilla[n].Cuenta) : n \in 1..Len(Plantilla)}

\* C9: for every divisor: a record of a template account whose value text
\* is a minus sign and digits shows in the table, in a row of its account
\* and the column of its entity, as the magnitude divided by the divisor
\* and rounded (not negative) when the account is in cambio_signo_cuenta,
\* and as the negative value divided by the divisor and rounded (not
\* positive) when it is not.
C9_CambioSigno ==
    pc = "hecho" =>
        \A i \in 1..Len(Frame) :
            LET r == Frame[i]
            IN  (/\ r.cuenta \in CuentasPlantilla
                 /\ Len(r.valor) > 1
                 /\ Head(r.valor) = "-"
                 /\ AllDigits(Tail(r.valor))) =>
                    LET mag == DigitsVal(Tail(r.valor))
                        expected == IF r.cuenta \in cambio_signo_cuenta
                                    THEN RoundDiv(mag, factor_rango)
                                    ELSE RoundDiv(0 - mag, factor_rango)
                    IN  /\ \E n \in 1..Len(Tabla.rows) :
                            /\ Tabla.rows[n][ColCuenta] = r.cuenta
                            /\ Tabla.rows[n][Label(r)] = expected
                        /\ r.cuenta \in cambio_signo_cuenta => expected >= 0
                        /\ r.cuenta \notin cambio_signo_cuenta => expected <= 0

\* C9 witness: -2500 on account 392000 in thousands gives 2 and -3500 on
\* account 11 gives -4
C9_Witness ==
    /\ pc = "hecho"
    /\ factor_rango = 1000
    /\ Frame = <<Rec1, Rec3>>
    /\ \E n \in 1..Len(Tabla.rows) :
        /\ Tabla.rows[n][ColCuenta] = Cuenta392000
        /\ Tabla.rows[n][Label(Rec1)] = 2
    /\ \E n \in 1..Len(Tabla.rows) :
        /\ Tabla.rows[n][ColCuenta] = <<"1", "1">>
        /\ Tabla.rows[n][Label(Rec3)] = 0 - 4

====
